---- MODULE Spec2Model ----
(***************************************************************************)
(* Model of the chart stream reconstructor (createChartStream: the scan    *)
(* reducer and the `ready` filter) and of EChartsOptionsMapper             *)
(* (getOptions, registerChartType, validateInput and the built-in          *)
(* builders).                                                              *)
(*                                                                         *)
(* Text is modelled as a sequence of one-character strings, so that trim,  *)
(* startsWith, substring and the brace counts are computed character by    *)
(* character as the code computes them.                                    *)
(***************************************************************************)
EXTENDS Integers, Sequences, FiniteSets, TLC

VARIABLES acc, line, nLines, emitted, sawStart, ctx,
          chartFactories, lastRegistered, lastOp,
          adapterIn, adapterOut

streamVars == <<acc, line, nLines, emitted, sawStart, ctx>>

mapperVars == <<chartFactories, lastRegistered, lastOp>>

adapterVars == <<adapterIn, adapterOut>>

vars == <<acc, line, nLines, emitted, sawStart, ctx,
          chartFactories, lastRegistered, lastOp, adapterIn, adapterOut>>

\* ------------------------------------------------------------------------
\* Bounds
\* ------------------------------------------------------------------------
MaxLines == 5

MaxLabels == 3

MaxPoints == 3

MaxEntries == 11

\* ------------------------------------------------------------------------
\* String literals of the source, as character sequences
\* ------------------------------------------------------------------------
EVENT_PREFIX == <<"e", "v", "e", "n", "t", ":">>
EVENT_CHARTJS == <<"e", "v", "e", "n", "t", ":", " ", "c", "h", "a", "r", "t", "j", "s">>
DATA_PREFIX == <<"d", "a", "t", "a", ":">>

\* ------------------------------------------------------------------------
\* Input lines fed to the stream
\* ------------------------------------------------------------------------
LnBlank == <<" ", " ">>
LnStart == <<" ", "e", "v", "e", "n", "t", ":", " ", "c", "h", "a", "r", "t", "j", "s">>
LnStartX == <<"e", "v", "e", "n", "t", ":", " ", "c", "h", "a", "r", "t", "j", "s", "X">>
LnOther == <<"e", "v", "e", "n", "t", ":", " ", "x">>
LnDataOpen == <<"d", "a", "t", "a", ":", " ", "{">>
LnDataFull == <<"d", "a", "t", "a", ":", "{", "}">>
LnDataClose == <<"d", "a", "t", "a", ":", " ", "}">>
LnDataBracket == <<"d", "a", "t", "a", ":", " ", "[">>
LnDataEmpty == <<"d", "a", "t", "a", ":", " ">>
LnClose == <<" ", "}">>
LnOpen == <<"{">>
LnText == <<"x">>

Lines ==
  { LnBlank, LnStart, LnStartX, LnOther, LnDataOpen, LnDataFull, LnDataClose,
    LnDataBracket, LnDataEmpty, LnClose, LnOpen, LnText }

\* ------------------------------------------------------------------------
\* String primitives (String.prototype.trim / startsWith / substring, and
\* the length of a global regex match of one character)
\* ------------------------------------------------------------------------
IsSpace(c) == c = " "

RECURSIVE TrimStart(_)
TrimStart(s) ==
  IF s = <<>> THEN <<>>
  ELSE IF IsSpace(Head(s)) THEN TrimStart(Tail(s)) ELSE s

RECURSIVE TrimEnd(_)
TrimEnd(s) ==
  IF s = <<>> THEN <<>>
  ELSE IF IsSpace(s[Len(s)]) THEN TrimEnd(SubSeq(s, 1, Len(s) - 1)) ELSE s

Trim(s) == TrimEnd(TrimStart(s))

StartsWith(s, p) == Len(s) >= Len(p) /\ SubSeq(s, 1, Len(p)) = p

Substring(s, from) == SubSeq(s, from + 1, Len(s))

RECURSIVE CountChar(_, _)
CountChar(s, c) ==
  IF s = <<>> THEN 0
  ELSE (IF Head(s) = c THEN 1 ELSE 0) + CountChar(Tail(s), c)

\* ------------------------------------------------------------------------
\* StreamState and the scan reducer
\* ------------------------------------------------------------------------
StreamState(isChartEvent, payload, ready, isAccumulating, braceCount) ==
  [isChartEvent |-> isChartEvent, payload |-> payload, ready |-> ready,
   isAccumulating |-> isAccumulating, braceCount |-> braceCount]

SeedState == StreamState(FALSE, <<>>, FALSE, FALSE, 0)

ResetState == StreamState(FALSE, <<>>, FALSE, FALSE, 0)

ActiveState == StreamState(TRUE, <<>>, FALSE, FALSE, 0)

IsResetLine(trimmed) ==
  StartsWith(trimmed, EVENT_PREFIX) /\ ~StartsWith(trimmed, EVENT_CHARTJS)

IsStartLineLoose(trimmed) == StartsWith(trimmed, EVENT_CHARTJS)

IsStartLine(trimmed) == trimmed = EVENT_CHARTJS

JsonStr(trimmed) == Trim(Substring(trimmed, 5))

StartDataNoOpenCheck(jsonStr) ==
  LET openBraces == CountChar(jsonStr, "{")
      closeBraces == CountChar(jsonStr, "}")
      braceCount == openBraces - closeBraces
  IN IF braceCount = 0
       THEN StreamState(FALSE, jsonStr, TRUE, FALSE, 0)
       ELSE StreamState(FALSE, jsonStr, FALSE, TRUE, braceCount)

StartDataKeepsContext(jsonStr) ==
  LET openBraces == CountChar(jsonStr, "{")
      closeBraces == CountChar(jsonStr, "}")
      braceCount == openBraces - closeBraces
  IN IF braceCount = 0 /\ openBraces > 0
       THEN StreamState(FALSE, jsonStr, TRUE, FALSE, 0)
       ELSE StreamState(TRUE, jsonStr, FALSE, TRUE, braceCount)

StartData(jsonStr) ==
  LET openBraces == CountChar(jsonStr, "{")
      closeBraces == CountChar(jsonStr, "}")
      braceCount == openBraces - closeBraces
  IN IF braceCount = 0 /\ openBraces > 0
       THEN StreamState(FALSE, jsonStr, TRUE, FALSE, 0)
       ELSE StreamState(FALSE, jsonStr, FALSE, TRUE, braceCount)

AccumulateWithSeparator(a, trimmed) ==
  LET newPayload == a.payload \o <<" ">> \o trimmed
      newBraceCount == a.braceCount + CountChar(trimmed, "{") - CountChar(trimmed, "}")
  IN IF newBraceCount = 0
       THEN StreamState(FALSE, newPayload, TRUE, FALSE, 0)
       ELSE [a EXCEPT !.payload = newPayload, !.braceCount = newBraceCount]

AccumulateClosedOrOver(a, trimmed) ==
  LET newPayload == a.payload \o trimmed
      newBraceCount == a.braceCount + CountChar(trimmed, "{") - CountChar(trimmed, "}")
  IN IF newBraceCount <= 0
       THEN StreamState(FALSE, newPayload, TRUE, FALSE, 0)
       ELSE [a EXCEPT !.payload = newPayload, !.braceCount = newBraceCount]

Accumulate(a, trimmed) ==
  LET newPayload == a.payload \o trimmed
      openBraces == CountChar(trimmed, "{")
      closeBraces == CountChar(trimmed, "}")
      newBraceCount == a.braceCount + openBraces - closeBraces
  IN IF newBraceCount = 0
       THEN StreamState(FALSE, newPayload, TRUE, FALSE, 0)
       ELSE [a EXCEPT !.payload = newPayload, !.braceCount = newBraceCount]

Scan(a, ln) ==
  LET trimmed == Trim(ln)
  IN IF IsResetLine(trimmed) THEN ResetState
     ELSE IF IsStartLine(trimmed) THEN ActiveState
     ELSE IF ~a.isChartEvent /\ ~a.isAccumulating THEN a
     ELSE IF a.isChartEvent /\ StartsWith(trimmed, DATA_PREFIX) /\ JsonStr(trimmed) # <<>>
       THEN StartData(JsonStr(trimmed))
     ELSE IF a.isAccumulating /\ trimmed # <<>> THEN Accumulate(a, trimmed)
     ELSE a

\* filter(state => state.ready): the states passed downstream
ReadyFilter(state) == state.ready

\* ------------------------------------------------------------------------
\* Observer of the current capture context: the text of the lines received
\* since the last `event: chartjs` line, independent of the reducer's state
\* ------------------------------------------------------------------------
NoContext ==
  [phase |-> "none", n |-> 0, text |-> <<>>, bal |-> 0, complete |-> FALSE,
   early |-> FALSE, rst |-> FALSE, blank |-> FALSE, began |-> FALSE,
   nz |-> TRUE, emits |-> 0]

BraceDelta(s) == CountChar(s, "{") - CountChar(s, "}")

CtxStep(c, ln, isReady) ==
  LET t == Trim(ln)
      e == IF isReady THEN 1 ELSE 0
  IN IF t = EVENT_CHARTJS
       THEN [NoContext EXCEPT !.phase = "started"]
     ELSE IF c.phase = "none" THEN c
     ELSE IF c.phase = "started"
       THEN IF StartsWith(t, EVENT_PREFIX) /\ ~StartsWith(t, EVENT_CHARTJS)
              THEN NoContext
            ELSE IF StartsWith(t, DATA_PREFIX) /\ JsonStr(t) # <<>>
              THEN LET f == JsonStr(t)
                       done == BraceDelta(f) = 0 /\ CountChar(f, "{") > 0
                   IN [c EXCEPT !.phase = "frag", !.n = 1, !.text = f,
                                !.bal = BraceDelta(f), !.complete = done,
                                !.began = ~done, !.emits = c.emits + e]
            ELSE [c EXCEPT !.blank = TRUE, !.emits = c.emits + e]
     ELSE IF t = <<>>
       THEN [c EXCEPT !.blank = TRUE, !.nz = c.nz /\ c.bal # 0,
                      !.emits = c.emits + e]
     ELSE [c EXCEPT !.n = c.n + 1, !.text = c.text \o t,
                    !.bal = c.bal + BraceDelta(t),
                    !.complete = (c.bal + BraceDelta(t) = 0),
                    !.early = c.early \/ c.complete,
                    !.rst = c.rst \/ (StartsWith(t, EVENT_PREFIX)
                                        /\ ~StartsWith(t, EVENT_CHARTJS)),
                    !.nz = c.nz /\ (c.bal + BraceDelta(t) # 0),
                    !.emits = c.emits + e]

\* ------------------------------------------------------------------------
\* JavaScript values handled by EChartsOptionsMapper
\* ------------------------------------------------------------------------
Undefined == [t |-> "undefined"]

Null == [t |-> "null"]

NaN == [t |-> "NaN"]

Infinity == [t |-> "Infinity"]

Num(n) == [t |-> "number", num |-> n]

Str(s) == [t |-> "string", str |-> s]

Bool(b) == [t |-> "boolean", b |-> b]

Arr(items) == [t |-> "array", items |-> items]

Datum(name, value) == [t |-> "object", name |-> name, value |-> value]

Series(seriesName, data) == [t |-> "object", seriesName |-> seriesName, data |-> data]

EmptyObject == [t |-> "object"]

TypeOf(v) ==
  IF v.t \in {"number", "NaN", "Infinity"} THEN "number"
  ELSE IF v.t \in {"null", "array"} THEN "object"
  ELSE v.t

IsNullish(v) == v.t \in {"undefined", "null"}

\* ToBoolean
Truthy(v) ==
  /\ v.t \notin {"undefined", "null", "NaN"}
  /\ ~(v.t = "number" /\ v.num = 0)
  /\ ~(v.t = "string" /\ v.str = "")
  /\ ~(v.t = "boolean" /\ ~v.b)

\* v.f for a v that is neither null nor undefined (those throw a TypeError)
Get(v, f) == IF v.t = "object" /\ f \in DOMAIN v THEN v[f] ELSE Undefined

IsArray(v) == v.t = "array"

\* isFinite on a value whose typeof is 'number'
IsFinite(v) == v.t = "number"

\* items.map(d => d[f]); a null or undefined item throws
MapThrows(items) == \E i \in 1..Len(items) : IsNullish(items[i])

MapField(items, f) == [i \in 1..Len(items) |-> Get(items[i], f)]

\* The outcome of a call: a returned value, or a thrown exception
Returned(v) == [thrown |-> FALSE, val |-> v]

Thrown == [thrown |-> TRUE, val |-> Undefined]

\* ------------------------------------------------------------------------
\* validateInput
\* ------------------------------------------------------------------------
MultiSeriesCharts == {"stackedBar", "groupedBar", "stackedLine"}

ValidationResult(isValid, errors) ==
  [thrown |-> FALSE, isValid |-> isValid, errors |-> errors]

ValidationThrown == [thrown |-> TRUE, isValid |-> FALSE, errors |-> <<>>]

IndexError(msg, index) == [msg |-> msg, index |-> index]

SeriesError(msg, seriesName) == [msg |-> msg, seriesName |-> seriesName]

\* multiData.forEach((series, index) => ...): i is the 1-based position
RECURSIVE ValidateMultiSeries(_, _, _)
ValidateMultiSeries(items, i, errors) ==
  IF i > Len(items) THEN ValidationResult(errors = <<>>, errors)
  ELSE IF IsNullish(items[i]) THEN ValidationThrown
  ELSE LET series == items[i]
           e1 == IF ~Truthy(Get(series, "seriesName"))
                   THEN <<IndexError("is missing seriesName", i - 1)>>
                   ELSE <<>>
           d == Get(series, "data")
           e2 == IF ~IsArray(d)
                   THEN <<IndexError("has invalid data (not an array)", i - 1)>>
                 ELSE IF Len(d.items) = 0
                   THEN <<SeriesError("has empty data array", Get(series, "seriesName"))>>
                 ELSE <<>>
       IN ValidateMultiSeries(items, i + 1, errors \o e1 \o e2)

\* singleData.forEach((item, index) => ...)
RECURSIVE ValidateSingleSeries(_, _, _)
ValidateSingleSeries(items, i, errors) ==
  IF i > Len(items) THEN ValidationResult(errors = <<>>, errors)
  ELSE IF IsNullish(items[i]) THEN ValidationThrown
  ELSE LET item == items[i]
           e1 == IF IsNullish(Get(item, "name"))
                   THEN <<IndexError("is missing name", i - 1)>> ELSE <<>>
           e2 == IF IsNullish(Get(item, "value"))
                   THEN <<IndexError("is missing value", i - 1)>> ELSE <<>>
           e3 == IF TypeOf(Get(item, "value")) = "number" /\ ~IsFinite(Get(item, "value"))
                   THEN <<IndexError("has invalid value (NaN or Infinity)", i - 1)>>
                   ELSE <<>>
       IN ValidateSingleSeries(items, i + 1, errors \o e1 \o e2 \o e3)

validateInput(chartType, data) ==
  IF ~Truthy(data)
    THEN ValidationResult(FALSE, <<[msg |-> "Data is null or undefined"]>>)
  ELSE IF ~IsArray(data)
    THEN ValidationResult(FALSE, <<[msg |-> "Data must be an array"]>>)
  ELSE IF Len(data.items) = 0
    THEN ValidationResult(FALSE, <<[msg |-> "Data array is empty"]>>)
  ELSE IF chartType \in MultiSeriesCharts
    THEN ValidateMultiSeries(data.items, 1, <<>>)
  ELSE ValidateSingleSeries(data.items, 1, <<>>)

\* ------------------------------------------------------------------------
\* Built-in builders
\* ------------------------------------------------------------------------
DEFAULT_GRID ==
  [top |-> 10, left |-> 20, right |-> 20, bottom |-> 10, containLabel |-> TRUE]

\* const { showLegend = dflt } = options
ShowLegend(options, dflt) ==
  IF Get(options, "showLegend") = Undefined THEN dflt
  ELSE Truthy(Get(options, "showLegend"))

\* const { colors = [] } = options
Colors(options) ==
  IF Get(options, "colors") = Undefined THEN Arr(<<>>) ELSE Get(options, "colors")

\* { ...DEFAULT_GRID, ...options.grid }
getGrid(options) ==
  IF Get(options, "grid") = Undefined THEN DEFAULT_GRID
  ELSE Get(options, "grid") @@ DEFAULT_GRID

\* `!data || data.length === 0`
EmptyData(data) == ~Truthy(data) \/ (IsArray(data) /\ Len(data.items) = 0)

createXYChartRotateFromTen(data, options, seriesConfig) ==
  IF IsNullish(options) \/ ~IsArray(data) \/ MapThrows(data.items) THEN Thrown
  ELSE Returned(
    [t |-> "object",
     color |-> Colors(options),
     grid |-> getGrid(options),
     tooltip |-> "item",
     legend |-> ShowLegend(options, FALSE),
     xAxis |-> [type |-> "category",
                data |-> MapField(data.items, "name"),
                axisLabel |-> [rotate |-> IF Len(data.items) >= 10 THEN 45 ELSE 0]],
     yAxis |-> [type |-> "value"],
     series |-> <<seriesConfig @@ [data |-> MapField(data.items, "value")]>>])

createXYChart(data, options, seriesConfig) ==
  IF IsNullish(options) \/ ~IsArray(data) \/ MapThrows(data.items) THEN Thrown
  ELSE Returned(
    [t |-> "object",
     color |-> Colors(options),
     grid |-> getGrid(options),
     tooltip |-> "item",
     legend |-> ShowLegend(options, FALSE),
     xAxis |-> [type |-> "category",
                data |-> MapField(data.items, "name"),
                axisLabel |-> [rotate |-> IF Len(data.items) > 10 THEN 45 ELSE 0]],
     yAxis |-> [type |-> "value"],
     series |-> <<seriesConfig @@ [data |-> MapField(data.items, "value")]>>])

createBarChart(data, options) ==
  IF EmptyData(data) THEN Returned(Null)
  ELSE createXYChart(data, options, [type |-> "bar", barMaxWidth |-> 50])

createHorizontalBarChart(data, options) ==
  IF EmptyData(data) THEN Returned(Null)
  ELSE IF IsNullish(options) \/ ~IsArray(data) \/ MapThrows(data.items) THEN Thrown
  ELSE Returned(
    [t |-> "object",
     color |-> Colors(options),
     grid |-> getGrid(options),
     tooltip |-> "item",
     legend |-> FALSE,
     xAxis |-> [type |-> "value"],
     yAxis |-> [type |-> "category", data |-> MapField(data.items, "name")],
     series |-> <<[type |-> "bar", barMaxWidth |-> 50,
                   data |-> MapField(data.items, "value")]>>])

createLineChart(data, options) ==
  IF EmptyData(data) THEN Returned(Null)
  ELSE createXYChart(data, options, [type |-> "line", smooth |-> TRUE, symbol |-> "circle"])

createAreaChart(data, options) ==
  IF EmptyData(data) THEN Returned(Null)
  ELSE createXYChart(data, options, [type |-> "line", smooth |-> TRUE, areaStyle |-> TRUE])

createPieChart(data, options) ==
  IF EmptyData(data) THEN Returned(Null)
  ELSE IF IsNullish(options) \/ ~IsArray(data) THEN Thrown
  ELSE Returned(
    [t |-> "object",
     color |-> Colors(options),
     tooltip |-> "item",
     legend |-> ShowLegend(options, TRUE),
     series |-> <<[type |-> "pie", radius |-> <<"60%">>, roseType |-> "none",
                   data |-> data.items]>>])

\* Object.assign(series[0], seriesOverride)
createPieVariant(data, options, seriesOverride) ==
  LET pieOptions == createPieChart(data, options)
  IN IF pieOptions.thrown \/ pieOptions.val = Null THEN pieOptions
     ELSE Returned([pieOptions.val EXCEPT
            !.series = <<seriesOverride @@ pieOptions.val.series[1]>>])

createDonutChart(data, options) ==
  createPieVariant(data, options, [radius |-> <<"40%", "70%">>])

createNightingaleChart(data, options) ==
  createPieVariant(data, options, [radius |-> <<"20%", "70%">>, roseType |-> "area"])

createMultiSeriesChart(data, options, seriesConfig) ==
  IF EmptyData(data) \/ ~IsArray(data) THEN Returned(Null)
  ELSE IF IsNullish(data.items[1]) \/ ~Truthy(Get(data.items[1], "data"))
    THEN Returned(Null)
  ELSE IF IsNullish(options) THEN Thrown
  ELSE IF ~IsArray(Get(data.items[1], "data")) \/ MapThrows(Get(data.items[1], "data").items)
    THEN Thrown
  ELSE IF \E i \in 1..Len(data.items) :
            \/ IsNullish(data.items[i])
            \/ ~IsArray(Get(data.items[i], "data"))
            \/ MapThrows(Get(data.items[i], "data").items)
    THEN Thrown
  ELSE LET isBar == seriesConfig.type = "bar"
           width == IF isBar
                      THEN [barMaxWidth |-> IF "stack" \in DOMAIN seriesConfig THEN 50 ELSE 30]
                      ELSE <<>>
       IN Returned(
         [t |-> "object",
          color |-> Colors(options),
          grid |-> getGrid(options),
          tooltip |-> "axis",
          legend |-> ShowLegend(options, TRUE),
          xAxis |-> [type |-> "category",
                     data |-> MapField(Get(data.items[1], "data").items, "name")],
          yAxis |-> [type |-> "value"],
          series |-> [i \in 1..Len(data.items) |->
                        seriesConfig @@ width @@
                        [name |-> Get(data.items[i], "seriesName"),
                         data |-> MapField(Get(data.items[i], "data").items, "value")]]])

createStackedBarChart(data, options) ==
  createMultiSeriesChart(data, options, [type |-> "bar", stack |-> "total"])

createGroupedBarChart(data, options) ==
  createMultiSeriesChart(data, options, [type |-> "bar"])

createStackedLineChart(data, options) ==
  createMultiSeriesChart(data, options,
    [type |-> "line", stack |-> "total", smooth |-> TRUE, areaStyle |-> TRUE])

\* ------------------------------------------------------------------------
\* Caller-supplied builders (ChartFactory) and the registry
\* ------------------------------------------------------------------------
Factories == {"FactoryA", "FactoryB", "FactoryNull", "FactoryThrows"}

ApplyFactory(f, data, options) ==
  IF f = "FactoryThrows" THEN Thrown
  ELSE IF f = "FactoryNull" THEN Returned(Null)
  ELSE Returned([t |-> "object", builtBy |-> f, data |-> data, options |-> options])

\* new Map<string, ChartFactory>()
EmptyRegistry == <<>>

registerFirstWins(registry, type, factory) == registry @@ (type :> factory)

\* this.chartFactories.set(type, factory)
registerChartType(registry, type, factory) == (type :> factory) @@ registry

\* ------------------------------------------------------------------------
\* getOptions
\* ------------------------------------------------------------------------
ImplementedTypes ==
  {"bar", "horizontalBar", "line", "areaLine", "pie", "donut", "nightAngle",
   "stackedBar", "groupedBar", "stackedLine"}

NoBuilder == [builder |-> "none"]

Invocation(builder, data, options) ==
  [builder |-> builder, data |-> data, options |-> options]

BuiltInName(chartType) ==
  CASE chartType = "bar" -> "createBarChart"
    [] chartType = "horizontalBar" -> "createHorizontalBarChart"
    [] chartType = "line" -> "createLineChart"
    [] chartType = "areaLine" -> "createAreaChart"
    [] chartType = "pie" -> "createPieChart"
    [] chartType = "donut" -> "createDonutChart"
    [] chartType = "nightAngle" -> "createNightingaleChart"
    [] chartType = "stackedBar" -> "createStackedBarChart"
    [] chartType = "groupedBar" -> "createGroupedBarChart"
    [] chartType = "stackedLine" -> "createStackedLineChart"
    [] OTHER -> "none"

\* switch (chartType) { ... default: return null }
BuiltIn(chartType, data, options) ==
  CASE chartType = "bar" -> createBarChart(data, options)
    [] chartType = "horizontalBar" -> createHorizontalBarChart(data, options)
    [] chartType = "line" -> createLineChart(data, options)
    [] chartType = "areaLine" -> createAreaChart(data, options)
    [] chartType = "pie" -> createPieChart(data, options)
    [] chartType = "donut" -> createDonutChart(data, options)
    [] chartType = "nightAngle" -> createNightingaleChart(data, options)
    [] chartType = "stackedBar" -> createStackedBarChart(data, options)
    [] chartType = "groupedBar" -> createGroupedBarChart(data, options)
    [] chartType = "stackedLine" -> createStackedLineChart(data, options)
    [] OTHER -> Returned(Null)

\* The outcome of the body of the try block, with what it called
Outcome(r, validation, invoked) ==
  [thrown |-> r.thrown, val |-> r.val, validation |-> validation,
   invoked |-> invoked, caught |-> FALSE]

\* custom factory lookup, then the switch
Dispatch(registry, chartType, data, options, validation) ==
  IF chartType \in DOMAIN registry
    THEN Outcome(ApplyFactory(registry[chartType], data, options), validation,
                 Invocation(registry[chartType], data, options))
  ELSE Outcome(BuiltIn(chartType, data, options), validation,
               IF chartType \in ImplementedTypes
                 THEN Invocation(BuiltInName(chartType), data, options)
                 ELSE NoBuilder)

TryBodyFactoryFirst(registry, chartType, data, options) ==
  LET validation == validateInput(chartType, data)
  IN IF chartType \in DOMAIN registry
       THEN Dispatch(registry, chartType, data, options, validation)
     ELSE IF validation.thrown THEN Outcome(Thrown, validation, NoBuilder)
     ELSE IF ~validation.isValid THEN Outcome(Returned(Null), validation, NoBuilder)
     ELSE Dispatch(registry, chartType, data, options, validation)

TryBody(registry, chartType, data, options) ==
  LET validation == validateInput(chartType, data)
  IN IF validation.thrown THEN Outcome(Thrown, validation, NoBuilder)
     ELSE IF ~validation.isValid THEN Outcome(Returned(Null), validation, NoBuilder)
     ELSE Dispatch(registry, chartType, data, options, validation)

\* options: ChartOptions = {}
DefaultOptions(options) == IF options = Undefined THEN EmptyObject ELSE options

getOptionsNoCatch(registry, chartType, data, options) ==
  TryBody(registry, chartType, data, DefaultOptions(options))

getOptions(registry, chartType, data, options) ==
  LET r == TryBody(registry, chartType, data, DefaultOptions(options))
  IN IF r.thrown
       THEN [r EXCEPT !.thrown = FALSE, !.val = Null, !.caught = TRUE]
       ELSE r

\* ------------------------------------------------------------------------
\* Inputs of the mapper
\* ------------------------------------------------------------------------
ChartTypes ==
  ImplementedTypes \cup {"waterFall", "stackedWaterFall", "custom"}

RegisterTypes == {"bar", "custom"}

DatumA == Datum(Str("a"), Num(1))

DatumB == Datum(Str("b"), Num(2))

Names ==
  <<"n1", "n2", "n3", "n4", "n5", "n6", "n7", "n8", "n9", "n10", "n11", "n12">>

NamedItems(n) == [i \in 1..n |-> Datum(Str(Names[i]), Num(i))]

DataValues ==
  { Null,
    Num(5),
    Arr(<<>>),
    Arr(<<DatumA, DatumB>>),
    Arr(<<Null>>),
    Arr(<<Datum(Str("a"), NaN)>>),
    Arr(<<Num(7)>>),
    Arr(<<Datum(Str("a"), Str("x"))>>),
    Arr(<<Series(Str("s1"), Arr(<<DatumA, DatumB>>)),
          Series(Str("s2"), Arr(<<DatumB, DatumA>>))>>),
    Arr(<<Series(Str("s1"), Arr(<<Null>>))>>),
    Arr(<<Series(Str(""), Arr(<<>>))>>) }

StreamerOptions ==
  [t |-> "object", showLegend |-> Bool(TRUE),
   grid |-> [bottom |-> 80, containLabel |-> TRUE]]

OptionValues == { Undefined, Null, StreamerOptions }

\* Datasets of every size up to the bound, and some invalid ones, for the
\* XY chart types
XYChartTypes == {"bar", "horizontalBar", "line", "areaLine"}

XYDataValues ==
  {Arr(NamedItems(n)) : n \in 1..MaxEntries}
  \cup {Arr(<<>>), Arr(<<Datum(Str("a"), NaN)>>), Arr(<<DatumA, Datum(Null, Num(2))>>)}

\* ------------------------------------------------------------------------
\* fromChartJsData
\* ------------------------------------------------------------------------
Digits == <<"0", "1", "2", "3", "4", "5", "6", "7", "8", "9">>

\* String(label) for a label whose typeof is 'string' or 'number'
ToStringValue(v) ==
  IF v.t = "string" THEN v
  ELSE IF v.t = "NaN" THEN Str("NaN")
  ELSE IF v.t = "Infinity" THEN Str("Infinity")
  ELSE Str(Digits[v.num + 1])

\* items[index], undefined past the end
ElementAt(items, i) == IF i \in 1..Len(items) THEN items[i] ELSE Undefined

PlainGet(v, f) == IF IsNullish(v) THEN Thrown ELSE Returned(Get(v, f))

\* v?.f
OptionalGet(v, f) == IF IsNullish(v) THEN Returned(Undefined) ELSE Returned(Get(v, f))

ConvertPointAnyValue(label, value) ==
  IF TypeOf(label) # "string" /\ TypeOf(label) # "number" THEN Null
  ELSE Datum(ToStringValue(label), value)

\* the callback of data.labels.map
ConvertPoint(label, value) ==
  IF TypeOf(label) # "string" /\ TypeOf(label) # "number" THEN Null
  ELSE IF TypeOf(value) # "number" THEN Null
  ELSE Datum(ToStringValue(label), value)

\* .filter(item => item !== null)
RECURSIVE FilterNotNull(_)
FilterNotNull(items) ==
  IF items = <<>> THEN <<>>
  ELSE IF Head(items) = Null THEN FilterNotNull(Tail(items))
  ELSE <<Head(items)>> \o FilterNotNull(Tail(items))

fromChartJsData(chartJsData) ==
  IF ~Truthy(chartJsData) \/ TypeOf(chartJsData) # "object"
    THEN Returned(Arr(<<>>))
  ELSE LET labels == Get(chartJsData, "labels")
           datasets == Get(chartJsData, "datasets")
       IN IF ~IsArray(labels) \/ ~IsArray(datasets) THEN Returned(Arr(<<>>))
          ELSE IF Len(datasets.items) = 0 THEN Returned(Arr(<<>>))
          ELSE LET first == OptionalGet(datasets.items[1], "data")
               IN IF first.thrown THEN Thrown
                  ELSE IF ~IsArray(first.val) THEN Returned(Arr(<<>>))
                  ELSE LET firstDataset == datasets.items[1]
                       IN IF ~Truthy(firstDataset) \/ ~Truthy(Get(firstDataset, "data"))
                            THEN Returned(Arr(<<>>))
                          ELSE Returned(Arr(FilterNotNull(
                                 [i \in 1..Len(labels.items) |->
                                    ConvertPoint(labels.items[i],
                                      ElementAt(Get(firstDataset, "data").items, i))])))

\* ------------------------------------------------------------------------
\* Inputs of fromChartJsData
\* ------------------------------------------------------------------------
SeqsUpTo(S, n) == UNION {[1..k -> S] : k \in 0..n}

LabelValues == {Str("a"), Num(2), Null}

PointValues == {Num(1), Str("x"), NaN, Undefined}

Dataset(points) == [t |-> "object", data |-> Arr(points)]

ChartJs(labels, datasets) ==
  [t |-> "object", labels |-> Arr(labels), datasets |-> Arr(datasets)]

OtherDataset == Dataset(<<Num(7), Num(8), Num(9)>>)

\* { labels, datasets: [{ data }] }, with or without a second dataset
StructuredInput(labels, points, more) ==
  ChartJs(labels, IF more THEN <<Dataset(points), OtherDataset>> ELSE <<Dataset(points)>>)

MalformedInputs ==
  { Null, Undefined, Num(5), Str("abc"), Bool(TRUE), EmptyObject,
    Arr(<<Str("a")>>),
    [t |-> "object", datasets |-> Arr(<<Dataset(<<Num(1)>>)>>)],
    [t |-> "object", labels |-> Str("a"), datasets |-> Arr(<<Dataset(<<Num(1)>>)>>)],
    [t |-> "object", labels |-> Arr(<<Str("a")>>)],
    [t |-> "object", labels |-> Arr(<<Str("a")>>), datasets |-> Dataset(<<Num(1)>>)],
    ChartJs(<<Str("a")>>, <<>>),
    ChartJs(<<Str("a")>>, <<Null>>),
    ChartJs(<<Str("a")>>, <<Undefined, Dataset(<<Num(1)>>)>>),
    ChartJs(<<Str("a")>>, <<Num(3)>>),
    ChartJs(<<Str("a")>>, <<EmptyObject>>),
    ChartJs(<<Str("a")>>, <<[t |-> "object", data |-> Str("12")]>>),
    ChartJs(<<Str("a")>>, <<[t |-> "object", data |-> Null], Dataset(<<Num(1)>>)>>) }

\* ------------------------------------------------------------------------
\* Specifications
\* ------------------------------------------------------------------------
Init ==
  /\ acc = SeedState
  /\ line = <<>>
  /\ nLines = 0
  /\ emitted = <<>>
  /\ sawStart = FALSE
  /\ ctx = NoContext
  /\ chartFactories = EmptyRegistry
  /\ lastRegistered = <<>>
  /\ lastOp = [kind |-> "none"]
  /\ adapterIn = Undefined
  /\ adapterOut = [kind |-> "idle"]

\* One line delivered by input$: scan, then the ready filter
Fold(ln) ==
  /\ nLines < MaxLines
  /\ acc' = Scan(acc, ln)
  /\ line' = ln
  /\ nLines' = nLines + 1
  /\ emitted' = IF ReadyFilter(acc') THEN Append(emitted, acc'.payload) ELSE emitted
  /\ sawStart' = (sawStart \/ Trim(ln) = EVENT_CHARTJS)
  /\ ctx' = CtxStep(ctx, ln, ReadyFilter(acc'))
  /\ UNCHANGED mapperVars
  /\ UNCHANGED adapterVars

Next == \E ln \in Lines : Fold(ln)

Spec == Init /\ [][Next]_vars

\* EChartsOptionsMapper.getOptions(chartType, data, options)
GetOptions(chartType, data, options) ==
  /\ lastOp' = [kind |-> "getOptions", chartType |-> chartType, data |-> data,
                options |-> options,
                result |-> getOptions(chartFactories, chartType, data, options)]
  /\ UNCHANGED <<chartFactories, lastRegistered>>
  /\ UNCHANGED streamVars
  /\ UNCHANGED adapterVars

\* EChartsOptionsMapper.registerChartType(type, factory)
RegisterChartType(type, factory) ==
  /\ chartFactories' = registerChartType(chartFactories, type, factory)
  /\ lastRegistered' =
       [tg \in DOMAIN lastRegistered \cup {type} |->
          IF tg = type THEN factory ELSE lastRegistered[tg]]
  /\ lastOp' = [kind |-> "registerChartType", chartType |-> type, factory |-> factory]
  /\ UNCHANGED streamVars
  /\ UNCHANGED adapterVars

NextMapper ==
  \/ \E chartType \in ChartTypes, data \in DataValues, options \in OptionValues :
       GetOptions(chartType, data, options)
  \/ \E type \in RegisterTypes, factory \in Factories :
       RegisterChartType(type, factory)

SpecMapper == Init /\ [][NextMapper]_vars

\* getOptions on the XY chart types with datasets of every size
NextXY ==
  \/ \E chartType \in XYChartTypes, data \in XYDataValues, options \in OptionValues :
       GetOptions(chartType, data, options)
  \/ \E type \in RegisterTypes, factory \in Factories :
       RegisterChartType(type, factory)

SpecXY == Init /\ [][NextXY]_vars

\* A value about to be handed to fromChartJsData
InitAdapter ==
  /\ acc = SeedState
  /\ line = <<>>
  /\ nLines = 0
  /\ emitted = <<>>
  /\ sawStart = FALSE
  /\ ctx = NoContext
  /\ chartFactories = EmptyRegistry
  /\ lastRegistered = <<>>
  /\ lastOp = [kind |-> "none"]
  /\ \/ adapterIn \in MalformedInputs
     \/ \E labels \in SeqsUpTo(LabelValues, MaxLabels),
           points \in SeqsUpTo(PointValues, MaxPoints), more \in BOOLEAN :
          adapterIn = StructuredInput(labels, points, more)
  /\ adapterOut = [kind |-> "pending"]

\* EChartsOptionsMapper.fromChartJsData(chartJsData)
FromChartJsData ==
  /\ adapterOut.kind = "pending"
  /\ adapterOut' = [kind |-> "done", result |-> fromChartJsData(adapterIn)]
  /\ UNCHANGED adapterIn
  /\ UNCHANGED streamVars
  /\ UNCHANGED mapperVars

NextAdapter == FromChartJsData

SpecAdapter == InitAdapter /\ [][NextAdapter]_vars
\* ------------------------------------------------------------------------
\* Properties of the stream reconstructor
\* ------------------------------------------------------------------------
LastEmitted == emitted[Len(emitted)]

\* C1: `ready` is a one-step pulse: if the state produced by folding a line
\* has ready = true, the state produced by folding the next line, whatever
\* that line is, has ready = false.
C1_ReadyIsPulse == [][acc.ready => ~acc'.ready]_vars

\* C2: as long as no folded line is, after trimming, exactly
\* `event: chartjs`, no state reached by the fold is ready and nothing has
\* been emitted.
C2_NoStartNoEmission == ~sawStart => (~acc.ready /\ emitted = <<>>)

C2_Witness == ~sawStart /\ nLines >= 2 /\ line = LnDataFull

\* C3: folding, in an accumulating state, a line that begins with `event:`
\* and is not exactly `event: chartjs` yields the reset state.
C3_EventLineResets ==
  [][(nLines' # nLines /\ acc.isAccumulating
        /\ StartsWith(Trim(line'), EVENT_PREFIX) /\ Trim(line') # EVENT_CHARTJS)
      => acc' = ResetState]_vars

\* C4 (as stated): after `event: chartjs`, a `data:` line and N - 1 >= 1
\* non-blank continuation lines whose total brace balance is zero, exactly
\* one payload has been emitted for the context and it is the concatenation
\* of the trimmed fragments.
C4_SplitJsonEmitsConcatenation ==
  (ctx.phase = "frag" /\ ctx.n >= 2 /\ ~ctx.blank /\ ctx.bal = 0)
    => (ctx.emits = 1 /\ acc.ready /\ acc.payload = ctx.text)

\* C4 (amended): the same, provided no proper prefix of the fragments is
\* already complete (the first fragment balanced with at least one `{`, or
\* the running balance zero after a later fragment) and no continuation line
\* is a resetting `event:` line; then the one payload is emitted at line N.
C4_SplitJsonEmitsOnceAtFirstBalance ==
  (ctx.phase = "frag" /\ ctx.n >= 2 /\ ~ctx.blank /\ ctx.bal = 0
     /\ ~ctx.early /\ ~ctx.rst)
    => (ctx.emits = 1 /\ acc.ready /\ acc.payload = ctx.text
          /\ emitted # <<>> /\ LastEmitted = ctx.text)

C4_Witness ==
  /\ ctx.phase = "frag" /\ ctx.n >= 3 /\ ~ctx.blank /\ ctx.bal = 0
  /\ ~ctx.early /\ ~ctx.rst
  /\ acc.ready

\* C5: in active context a `data:` line with a non-empty fragment is emitted
\* at once, and the state returns to inactive, when the fragment has at
\* least one `{` and as many `}` as `{`; otherwise nothing is emitted at that
\* line and accumulation begins with the fragment stored and the balance
\* #`{` - #`}`.
C5_DataLineInActiveContext ==
  [][(nLines' # nLines /\ acc.isChartEvent
        /\ StartsWith(Trim(line'), DATA_PREFIX) /\ JsonStr(Trim(line')) # <<>>)
      => LET f == JsonStr(Trim(line'))
             o == CountChar(f, "{")
             c == CountChar(f, "}")
         IN IF o > 0 /\ o = c
              THEN /\ acc' = StreamState(FALSE, f, TRUE, FALSE, 0)
                   /\ emitted' = Append(emitted, f)
              ELSE /\ acc' = StreamState(FALSE, f, FALSE, TRUE, o - c)
                   /\ emitted' = emitted]_vars

C5_Witness ==
  /\ line = LnDataFull /\ acc.ready /\ acc.payload = <<"{", "}">>
  /\ ctx.phase = "frag" /\ ctx.n = 1 /\ ctx.emits = 1

\* C6: if, after accumulation begins in a context, the running brace
\* balance is non-zero after every subsequent line, nothing is emitted for
\* that context and the state is neither active nor ready until a later
\* `event: chartjs` line.
C6_NeverBalancedNeverEmits ==
  (ctx.phase = "frag" /\ ctx.began /\ ctx.nz)
    => (ctx.emits = 0 /\ ~acc.ready /\ ~acc.isChartEvent)

C6_Witness ==
  /\ ctx.phase = "frag" /\ ctx.began /\ ctx.nz /\ ctx.n >= 3
  /\ acc.isAccumulating /\ acc.braceCount # 0

\* ------------------------------------------------------------------------
\* Properties of the options factory
\* ------------------------------------------------------------------------
IsGetOptions == lastOp.kind = "getOptions"

\* C7: getOptions never lets a failure escape: whatever the tag, the dataset
\* and the registry hold (a registered builder that throws included), it
\* returns a configuration or null and raises nothing; for an unregistered
\* tag that is not one of the ten implemented types it returns null.
C7_GetOptionsNeverThrows ==
  IsGetOptions =>
    /\ ~lastOp.result.thrown
    /\ lastOp.result.val = Null \/ lastOp.result.val.t = "object"
    /\ (lastOp.chartType \notin DOMAIN chartFactories
          /\ lastOp.chartType \notin ImplementedTypes)
         => lastOp.result.val = Null

C7_Witness ==
  /\ IsGetOptions
  /\ lastOp.result.caught
  /\ lastOp.result.invoked.builder # "none"
  /\ lastOp.result.val = Null

\* C8: validateInput never raises: for every chart type and every candidate
\* data value it returns a {valid, errors} result.
C8_ValidatorNeverThrows == IsGetOptions => ~lastOp.result.validation.thrown

\* C9: whenever validation of (chartType, dataset) is invalid, getOptions
\* returns null and no builder, built-in or registered, has been invoked.
C9_InvalidNeverReachesBuilder ==
  (IsGetOptions /\ ~validateInput(lastOp.chartType, lastOp.data).isValid)
    => (lastOp.result.val = Null /\ lastOp.result.invoked = NoBuilder)

C9_Witness ==
  /\ IsGetOptions
  /\ lastOp.chartType \in DOMAIN chartFactories
  /\ ~validateInput(lastOp.chartType, lastOp.data).thrown
  /\ ~validateInput(lastOp.chartType, lastOp.data).isValid
  /\ lastOp.result.invoked = NoBuilder

\* C10: for valid data, getOptions on a tag registered at least once invokes
\* the most recently registered builder for that tag with (data, options)
\* and returns exactly what it returns, also when the tag is a built-in
\* type; a tag never registered goes to the built-ins; and no step removes
\* a registration.
C10_LastRegistrationWins ==
  /\ [](( IsGetOptions /\ validateInput(lastOp.chartType, lastOp.data).isValid )
        => LET tg == lastOp.chartType
               d == lastOp.data
               o == DefaultOptions(lastOp.options)
           IN IF tg \in DOMAIN lastRegistered
                THEN LET r == ApplyFactory(lastRegistered[tg], d, o)
                     IN /\ lastOp.result.invoked = Invocation(lastRegistered[tg], d, o)
                        /\ ~r.thrown => lastOp.result.val = r.val
                ELSE /\ lastOp.result.invoked.builder = BuiltInName(tg)
                     /\ lastOp.result.invoked.builder \notin Factories)
  /\ [][DOMAIN chartFactories \subseteq DOMAIN chartFactories'
          /\ DOMAIN chartFactories' = DOMAIN lastRegistered']_vars

C10_Witness ==
  /\ IsGetOptions
  /\ lastOp.chartType = "bar"
  /\ validateInput(lastOp.chartType, lastOp.data).isValid
  /\ DOMAIN lastRegistered = {"bar", "custom"}
  /\ lastRegistered["bar"] = "FactoryB"
  /\ lastOp.result.val # Null
  /\ lastOp.result.val = ApplyFactory("FactoryB", lastOp.data, DefaultOptions(lastOp.options)).val

\* ------------------------------------------------------------------------
\* Invariants of StreamState
\* ------------------------------------------------------------------------
\* C15: in every state reached by folding lines from the seed state, the
\* context is never both active and accumulating; ready implies not active,
\* not accumulating and a zero brace count; the brace count is non-zero only
\* while accumulating; and the payload is empty whenever the context is
\* active.
C15_StreamStateInvariant ==
  /\ ~(acc.isChartEvent /\ acc.isAccumulating)
  /\ acc.ready => (~acc.isChartEvent /\ ~acc.isAccumulating /\ acc.braceCount = 0)
  /\ acc.braceCount # 0 => acc.isAccumulating
  /\ acc.isChartEvent => acc.payload = <<>>

C15_Witness ==
  /\ Len(emitted) >= 1
  /\ acc.isAccumulating /\ acc.braceCount < 0 /\ acc.payload # <<>>
  /\ ~acc.ready /\ ~acc.isChartEvent

\* ------------------------------------------------------------------------
\* Properties of fromChartJsData
\* ------------------------------------------------------------------------
AdapterDone == adapterOut.kind = "done"

IsNumberValue(v) == v.t \in {"number", "NaN", "Infinity"}

\* An object with a sequence `labels` and a non-empty sequence `datasets`
\* whose first element is an object with a sequence `data`
WellFormed(x) ==
  /\ x.t = "object"
  /\ "labels" \in DOMAIN x /\ x.labels.t = "array"
  /\ "datasets" \in DOMAIN x /\ x.datasets.t = "array"
  /\ Len(x.datasets.items) >= 1
  /\ x.datasets.items[1].t = "object"
  /\ "data" \in DOMAIN x.datasets.items[1]
  /\ x.datasets.items[1].data.t = "array"

InLabels == adapterIn.labels.items

InFirstData == adapterIn.datasets.items[1].data.items

KeptIndices ==
  {i \in 1..Len(InLabels) :
     /\ InLabels[i].t = "string" \/ IsNumberValue(InLabels[i])
     /\ i <= Len(InFirstData)
     /\ IsNumberValue(InFirstData[i])}

RankOf(i) == Cardinality({j \in KeptIndices : j <= i})

\* C11: on a structurally valid input fromChartJsData returns, in increasing
\* index order, exactly one {name: String(labels[i]), value: data[i]} for
\* each index i where labels[i] is a string or number and the first
\* dataset's data[i] is a number, and nothing else; the output is never
\* longer than labels and later datasets do not influence it.
C11_OnePointPerGoodIndex ==
  (AdapterDone /\ WellFormed(adapterIn)) =>
    /\ ~adapterOut.result.thrown
    /\ adapterOut.result.val.t = "array"
    /\ LET out == adapterOut.result.val.items
       IN /\ Len(out) = Cardinality(KeptIndices)
          /\ Len(out) <= Len(InLabels)
          /\ \A i \in KeptIndices :
               /\ out[RankOf(i)].t = "object"
               /\ DOMAIN out[RankOf(i)] = {"t", "name", "value"}
               /\ out[RankOf(i)].value = InFirstData[i]
               /\ out[RankOf(i)].name.t = "string"
               /\ InLabels[i].t = "string" => out[RankOf(i)].name = InLabels[i]
               /\ InLabels[i] = Num(2) => out[RankOf(i)].name = Str("2")

C11_Witness ==
  /\ AdapterDone /\ WellFormed(adapterIn)
  /\ Len(adapterIn.datasets.items) = 2
  /\ InLabels = <<Str("a"), Num(2), Str("a")>>
  /\ InFirstData = <<Num(1), Num(1), Str("x")>>
  /\ adapterOut.result.val = Arr(<<Datum(Str("a"), Num(1)), Datum(Str("2"), Num(1))>>)

\* C12: on any structurally malformed input fromChartJsData returns an
\* empty sequence and does not raise.
C12_MalformedGivesEmpty ==
  (AdapterDone /\ ~WellFormed(adapterIn)) => adapterOut.result = Returned(Arr(<<>>))

C12_Witness ==
  /\ AdapterDone
  /\ adapterIn = ChartJs(<<Str("a")>>, <<Null>>)
  /\ adapterOut.result = Returned(Arr(<<>>))

\* ------------------------------------------------------------------------
\* Properties of the validator
\* ------------------------------------------------------------------------
FieldOf(item, f) ==
  IF item.t = "object" /\ f \in DOMAIN item THEN item[f] ELSE Undefined

ExpectedItemErrors(item, index) ==
  (IF FieldOf(item, "name").t \in {"undefined", "null"}
     THEN <<[msg |-> "is missing name", index |-> index]>> ELSE <<>>)
  \o (IF FieldOf(item, "value").t \in {"undefined", "null"}
        THEN <<[msg |-> "is missing value", index |-> index]>> ELSE <<>>)
  \o (IF FieldOf(item, "value").t \in {"NaN", "Infinity"}
        THEN <<[msg |-> "has invalid value (NaN or Infinity)", index |-> index]>>
        ELSE <<>>)

RECURSIVE ExpectedSingleErrors(_, _)
ExpectedSingleErrors(items, n) ==
  IF n = 0 THEN <<>>
  ELSE ExpectedSingleErrors(items, n - 1) \o ExpectedItemErrors(items[n], n - 1)

\* C13: for a non-empty data sequence the validator checks every item and
\* accumulates all violations: for single-series types the error list is, in
\* index order, one error per item with an undefined/null name, one per item
\* with an undefined/null value and one per item with a non-finite numeric
\* value, and valid holds exactly when the list is empty; absent data,
\* non-sequence data and an empty sequence give exactly one error and
\* valid = false.
C13_AllViolationsAccumulate ==
  IsGetOptions =>
    LET v == lastOp.result.validation
        d == lastOp.data
    IN /\ ~v.thrown
       /\ v.isValid = (v.errors = <<>>)
       /\ IF d.t = "array" /\ d.items # <<>>
            THEN lastOp.chartType \notin MultiSeriesCharts
                   => v.errors = ExpectedSingleErrors(d.items, Len(d.items))
            ELSE Len(v.errors) = 1 /\ ~v.isValid

\* ------------------------------------------------------------------------
\* Properties of the XY builders
\* ------------------------------------------------------------------------
XYTypes == {"bar", "horizontalBar", "line", "areaLine"}

CategoryAxisKey(chartType) == IF chartType = "horizontalBar" THEN "yAxis" ELSE "xAxis"

\* The label rotation an axis asks for; an axis without axisLabel.rotate is
\* drawn with the renderer's default, 0
RotationOf(axis) ==
  IF "axisLabel" \in DOMAIN axis THEN axis.axisLabel.rotate ELSE 0

DatasetNames(data) == [i \in 1..Len(data.items) |-> FieldOf(data.items[i], "name")]

HasCategoryAxis(cfg, key, names) ==
  /\ cfg.t = "object"
  /\ key \in DOMAIN cfg
  /\ cfg[key].type = "category"
  /\ "data" \in DOMAIN cfg[key]
  /\ cfg[key].data = names

\* A call that reaches the built-in XY builder with a valid dataset
BuiltInXYCall ==
  /\ IsGetOptions
  /\ lastOp.chartType \in XYTypes
  /\ lastOp.chartType \notin DOMAIN chartFactories
  /\ DefaultOptions(lastOp.options) # Null
  /\ validateInput(lastOp.chartType, lastOp.data).isValid

\* C14 (as stated): for bar, horizontalBar, line and areaLine and every
\* valid dataset, the configuration has a category axis (x, or y for
\* horizontalBar) whose data is the dataset's names in order and whose label
\* rotation is 45 when the dataset has more than 10 entries and 0 otherwise.
C14_CategoryAxisAndRotation ==
  BuiltInXYCall =>
    LET cfg == lastOp.result.val
        key == CategoryAxisKey(lastOp.chartType)
    IN /\ HasCategoryAxis(cfg, key, DatasetNames(lastOp.data))
       /\ RotationOf(cfg[key]) = IF Len(lastOp.data.items) > 10 THEN 45 ELSE 0

\* C14 (amended): the category axis is as stated for all four types; the
\* rotation is 45 above 10 entries and 0 otherwise for bar, line and
\* areaLine only, while horizontalBar sets no rotation whatever the size.
C14_CategoryAxisRotationExceptHorizontal ==
  BuiltInXYCall =>
    LET cfg == lastOp.result.val
        key == CategoryAxisKey(lastOp.chartType)
    IN /\ HasCategoryAxis(cfg, key, DatasetNames(lastOp.data))
       /\ IF lastOp.chartType = "horizontalBar"
            THEN "axisLabel" \notin DOMAIN cfg[key] /\ cfg.xAxis.type = "value"
            ELSE /\ "axisLabel" \in DOMAIN cfg[key]
                 /\ cfg[key].axisLabel.rotate =
                      IF Len(lastOp.data.items) > 10 THEN 45 ELSE 0
                 /\ cfg.yAxis.type = "value"

C14_Witness ==
  /\ BuiltInXYCall
  /\ lastOp.chartType = "horizontalBar"
  /\ Len(lastOp.data.items) = 11
  /\ lastOp.result.val # Null
  /\ lastOp.result.val.yAxis.data[11] = Str("n11")

====
